---- MODULE Spec2Model ----
\* A model of createicns (iconset directory -> .icns container) and readicns
\* (.icns container -> iconset directory).
\*
\* Strings are sequences of byte values (0..255) without their terminating
\* NUL; a file is the sequence of its bytes; a uint32_t is a number.
EXTENDS Integers, Sequences, FiniteSets, TLC

\* ------------------------------------------------------------------ bounds

\* Largest number of entries a modelled iconset directory lists.
MaxEntries == 2

\* Largest number of chunks a hand-made container holds.
MaxChunks == 2

\* --------------------------------------------------------------- constants

kBufferSize == 1024

MAXPATHLEN == 1024

\* ".iconset"
kIconsetExtension == <<46, 105, 99, 111, 110, 115, 101, 116>>

\* ".icns"
kIcnsExtension == <<46, 105, 99, 110, 115>>

\* "icon_data_"
kUnknownFormatFilename == <<105, 99, 111, 110, 95, 100, 97, 116, 97, 95>>

\* 'icns' = 0x69636e73
kMagicHeader == 1768124019

kIconTypes == <<
    \* {"icon_16x16.png", 'icp4'}
    [icon_filename |-> <<105, 99, 111, 110, 95, 49, 54, 120, 49, 54, 46, 112, 110, 103>>,
     icon_type |-> 1768124468],
    \* {"icon_16x16@2x.png", 'ic11'}
    [icon_filename |-> <<105, 99, 111, 110, 95, 49, 54, 120, 49, 54, 64, 50, 120, 46, 112, 110, 103>>,
     icon_type |-> 1768108337],
    \* {"icon_32x32.png", 'icp5'}
    [icon_filename |-> <<105, 99, 111, 110, 95, 51, 50, 120, 51, 50, 46, 112, 110, 103>>,
     icon_type |-> 1768124469],
    \* {"icon_32x32@2x.png", 'ic12'}
    [icon_filename |-> <<105, 99, 111, 110, 95, 51, 50, 120, 51, 50, 64, 50, 120, 46, 112, 110, 103>>,
     icon_type |-> 1768108338],
    \* {"icon_64x64.png", 'icp6'}
    [icon_filename |-> <<105, 99, 111, 110, 95, 54, 52, 120, 54, 52, 46, 112, 110, 103>>,
     icon_type |-> 1768124470],
    \* {"icon_128x128.png", 'ic07'}
    [icon_filename |-> <<105, 99, 111, 110, 95, 49, 50, 56, 120, 49, 50, 56, 46, 112, 110, 103>>,
     icon_type |-> 1768108087],
    \* {"icon_128x128@2x.png", 'ic13'}
    [icon_filename |-> <<105, 99, 111, 110, 95, 49, 50, 56, 120, 49, 50, 56, 64, 50, 120, 46, 112, 110, 103>>,
     icon_type |-> 1768108339],
    \* {"icon_256x256.png", 'ic08'}
    [icon_filename |-> <<105, 99, 111, 110, 95, 50, 53, 54, 120, 50, 53, 54, 46, 112, 110, 103>>,
     icon_type |-> 1768108088],
    \* {"icon_256x256@2x.png", 'ic14'}
    [icon_filename |-> <<105, 99, 111, 110, 95, 50, 53, 54, 120, 50, 53, 54, 64, 50, 120, 46, 112, 110, 103>>,
     icon_type |-> 1768108340],
    \* {"icon_512x512.png", 'ic09'}
    [icon_filename |-> <<105, 99, 111, 110, 95, 53, 49, 50, 120, 53, 49, 50, 46, 112, 110, 103>>,
     icon_type |-> 1768108089],
    \* {"icon_512x512@2x.png", 'ic10'}
    [icon_filename |-> <<105, 99, 111, 110, 95, 53, 49, 50, 120, 53, 49, 50, 64, 50, 120, 46, 112, 110, 103>>,
     icon_type |-> 1768108336] >>

\* The null pointer returned where the code returns NULL in place of a string.
NULL == <<-1>>

\* '/' and '.'
Slash == 47
Dot == 46

\* The messages the two programs print.
MsgSystem == "perror"
MsgNeedIconset == "Need .iconset directory as input."
MsgWarnSkip == "Warning: Don't know icon type, skipping"
MsgNotIcns == "This doesn't look like an Apple .icns file."
MsgEmptyIcns == "This looks like an empty .icns file."
MsgNoName == "Can't determine name of icns file"
MsgNoExtension == "Can't find .icns extension on input file"
MsgInvalidSize == "Invalid size in .icns file"
MsgCopy == "Error copying from .icns file to iconset"

\* ------------------------------------------------------- C library helpers

Min(a, b) == IF a < b THEN a ELSE b

Take(s, n) == SubSeq(s, 1, Min(n, Len(s)))

Drop(s, n) == SubSeq(s, n + 1, Len(s))

\* strlen of a char buffer: the number of bytes before the first NUL.
strlen(buf) ==
    LET nul == {i \in 1..Len(buf) : buf[i] = 0}
    IN  IF nul = {} THEN Len(buf)
        ELSE (CHOOSE i \in nul : \A j \in nul : i <= j) - 1

\* The string strlcpy(dst, src, size) stores at dst.
strlcpy(src, size) == Take(Take(src, strlen(src)), size - 1)

\* strstr: the 1-based index of the first occurrence of needle, 0 for none.
strstr(hay, needle) ==
    LET hits == {i \in 1..(Len(hay) - Len(needle) + 1) :
                    SubSeq(hay, i, i + Len(needle) - 1) = needle}
    IN  IF hits = {} THEN 0 ELSE CHOOSE i \in hits : \A j \in hits : i <= j

\* htonl followed by fwrite of the 4 bytes: most significant byte first.
\* (The values of the model stay below 2^31, the largest number TLC has, so
\* the reduction of a long modulo 2^32 never changes them.)
htonl(v) ==
    << (v \div 16777216) % 256, (v \div 65536) % 256, (v \div 256) % 256,
       v % 256 >>

\* ntohl of 4 bytes read from a file.
ntohl(b) == b[1] * 16777216 + b[2] * 65536 + b[3] * 256 + b[4]

\* fwrite of bytes at offset pos of a file holding data.
fwrite(data, pos, bytes) ==
    Take(data, pos) \o bytes \o Drop(data, pos + Len(bytes))

\* A path as the file system resolves it: trailing slashes do not matter.
RECURSIVE Resolve(_)
Resolve(path) ==
    IF Len(path) > 1 /\ path[Len(path)] = Slash
    THEN Resolve(Take(path, Len(path) - 1))
    ELSE path

\* ----------------------------------------------------------- readicns.c

IsEmpty(path) == path = <<>>

RECURSIVE BasenameEnd(_, _)
BasenameEnd(path, end) ==
    IF end > 1 /\ path[end] = Slash THEN BasenameEnd(path, end - 1) ELSE end

RECURSIVE BasenameBegin(_, _)
BasenameBegin(path, begin) ==
    IF begin > 1 /\ path[begin - 1] # Slash
    THEN BasenameBegin(path, begin - 1) ELSE begin

Basename(path) ==
    IF path = <<>> THEN <<Dot>>
    ELSE LET end == BasenameEnd(path, Len(path))
             begin == BasenameBegin(path, end)
             base_length == (end - begin) + 1
         IN  IF base_length >= MAXPATHLEN THEN NULL
             ELSE strlcpy(SubSeq(path, begin, Len(path)), base_length + 1)

\* The value ReadUint32 returns for a stream holding data at offset pos.
ReadUint32(data, pos) ==
    IF pos + 4 <= Len(data) THEN ntohl(SubSeq(data, pos + 1, pos + 4)) ELSE 0

\* The stream offset after that fread of one 4-byte item.
ReadUint32Pos(data, pos) == Min(pos + 4, Len(data))

\* Whether that fread hit end of file (it sets the stream's EOF indicator).
ReadUint32Eof(data, pos) == pos + 4 > Len(data)

\* OpenIcnsFileForReading without its check of the total size.
OpenIcnsFileForReadingNoSize(data) ==
    IF ReadUint32(data, 0) # kMagicHeader THEN MsgNotIcns ELSE ""

\* What OpenIcnsFileForReading does with an opened file: the message it
\* prints, or "" when it returns the stream.
OpenIcnsFileForReading(data) ==
    LET header == ReadUint32(data, 0)
        size == ReadUint32(data, ReadUint32Pos(data, 0))
    IN  IF header # kMagicHeader THEN MsgNotIcns
        ELSE IF size = 0 THEN MsgEmptyIcns
        ELSE ""

\* The path GetIconsetPath returns and the message it prints.
GetIconsetPath(icns_path) ==
    LET base == Basename(icns_path)
        extension == strstr(base, kIcnsExtension)
    IN  IF base = NULL THEN [path |-> <<>>, error |-> MsgNoName]
        ELSE IF extension = 0 THEN [path |-> <<>>, error |-> MsgNoExtension]
        ELSE [path |-> Take(base, extension - 1) \o
                       strlcpy(kIconsetExtension, MAXPATHLEN - (extension - 1)),
              error |-> ""]

GetFilenameFromType(type) ==
    LET hits == {i \in 1..Len(kIconTypes) : kIconTypes[i].icon_type = type}
    IN  IF hits = {} THEN NULL
        ELSE kIconTypes[CHOOSE i \in hits : \A j \in hits : i <= j].icon_filename

\* The file name CopyIconToIconset stores behind the '/' it appends to the
\* iconset path, used bytes into the Path buffer, for a chunk tagged header.
IconFilename(header, used) ==
    LET icon_filename == GetFilenameFromType(header)
        unknown_format == htonl(header) \o <<0>>
        prefix == strlcpy(kUnknownFormatFilename, MAXPATHLEN - used)
    IN  IF icon_filename # NULL
        THEN strlcpy(icon_filename, MAXPATHLEN - used)
        ELSE prefix \o
             strlcpy(unknown_format,
                     MAXPATHLEN - (used + strlen(kUnknownFormatFilename)))

\* The copy loop of CopyIconToIconset: size bytes from offset pos of the
\* container in blocks of at most kBufferSize; wfail makes fwrite fail.
RECURSIVE CopyLoop(_, _, _, _, _)
CopyLoop(data, pos, size, written, wfail) ==
    IF size > 0
    THEN LET to_read == IF size > kBufferSize THEN kBufferSize ELSE size
         IN  IF pos + to_read > Len(data)
             THEN [ok |-> FALSE, failed |-> "fread", pos |-> Len(data),
                   eof |-> TRUE, written |-> written]
             ELSE IF wfail
             THEN [ok |-> FALSE, failed |-> "fwrite", pos |-> pos + to_read,
                   eof |-> FALSE, written |-> written]
             ELSE CopyLoop(data, pos + to_read, size - to_read,
                           written \o SubSeq(data, pos + 1, pos + to_read),
                           wfail)
    ELSE [ok |-> TRUE, failed |-> "", pos |-> pos, eof |-> FALSE,
          written |-> written]

\* CopyIconToIconset on a stream holding data at offset pos. fault is the
\* library call that fails ("none", "fopen", "fwrite"). target is the name of
\* the file opened for writing inside the iconset (NULL for none), written its
\* contents when the function returns, failed the library call that failed
\* ("fread" for a read that met the end of the file).
CopyIconToIconset(data, pos, iconset_path, fault) ==
    LET header == ReadUint32(data, pos)
        eof1 == ReadUint32Eof(data, pos)
        pos1 == ReadUint32Pos(data, pos)
        size == ReadUint32(data, pos1)
        eof2 == eof1 \/ ReadUint32Eof(data, pos1)
        pos2 == ReadUint32Pos(data, pos1)
        name == IconFilename(header, strlen(iconset_path) + 1)
        copy == CopyLoop(data, pos2, size - 8, <<>>, fault = "fwrite")
    IN  IF header = 0 /\ eof1
        THEN [ret |-> TRUE, pos |-> pos1, eof |-> TRUE, error |-> "",
              failed |-> "", header |-> header, target |-> NULL, written |-> <<>>]
        ELSE IF size <= 8
        THEN [ret |-> FALSE, pos |-> pos2, eof |-> eof2,
              error |-> MsgInvalidSize, failed |-> "",
              header |-> header, target |-> NULL, written |-> <<>>]
        ELSE IF fault = "fopen" \/ \E i \in 1..Len(name) : name[i] = Slash
        THEN [ret |-> FALSE, pos |-> pos2, eof |-> eof2, error |-> MsgSystem,
              failed |-> "fopen", header |-> header, target |-> NULL, written |-> <<>>]
        ELSE [ret |-> copy.ok, pos |-> copy.pos, eof |-> eof2 \/ copy.eof,
              error |-> IF copy.ok THEN "" ELSE MsgCopy, failed |-> copy.failed,
              header |-> header, target |-> name, written |-> copy.written]

\* ---------------------------------------------------------- createicns.c

\* WriteUint32 at offset pos of the file holding data.
WriteUint32(to_write, data, pos) == fwrite(data, pos, htonl(to_write))

\* basename_r of libc.
basename_r(path) == Basename(path)

\* The name of the file OpenIcnsFileForIconset opens, NULL when it prints
\* MsgNeedIconset instead.
IcnsPathForIconset(iconset_path) ==
    LET path == basename_r(iconset_path)
        path_length == strlen(path)
        extension_length == Len(kIconsetExtension)
        base_path_length == path_length - extension_length
    IN  IF path_length <= extension_length \/
           SubSeq(path, base_path_length + 1, path_length) # kIconsetExtension
        THEN NULL
        ELSE Take(path, base_path_length) \o kIcnsExtension

\* FindIconType falling back to the first type instead of 0.
FindIconTypeDefault(icon_filename) ==
    LET hits == {i \in 1..Len(kIconTypes) :
                    kIconTypes[i].icon_filename = icon_filename}
    IN  IF hits = {} THEN kIconTypes[1].icon_type
        ELSE kIconTypes[CHOOSE i \in hits : \A j \in hits : i <= j].icon_type

FindIconType(icon_filename) ==
    LET hits == {i \in 1..Len(kIconTypes) :
                    kIconTypes[i].icon_filename = icon_filename}
    IN  IF hits = {} THEN 0
        ELSE kIconTypes[CHOOSE i \in hits : \A j \in hits : i <= j].icon_type

\* The copy loop of WriteIconToFile leaving after its first block.
CopyFileOneBlock(infile, inpos, out, pos) ==
    fwrite(out, pos,
           SubSeq(infile, inpos + 1,
                  inpos + Min(kBufferSize, Len(infile) - inpos)))

\* The do-while copy loop of WriteIconToFile: the output file after the
\* source file infile has been copied from offset inpos to offset pos of out.
RECURSIVE CopyFile(_, _, _, _)
CopyFile(infile, inpos, out, pos) ==
    LET read == Min(kBufferSize, Len(infile) - inpos)
        out1 == fwrite(out, pos, SubSeq(infile, inpos + 1, inpos + read))
    IN  IF read = kBufferSize
        THEN CopyFile(infile, inpos + read, out1, pos + read)
        ELSE out1

\* WriteIconToFile for a source file holding infile, on an output file holding
\* out at offset pos. fault is the library call that fails ("none", "fopen",
\* "fseek", "header", "fwrite").
WriteIconToFile(infile, icon_type, out, pos, fault) ==
    LET size == Len(infile)
        out1 == WriteUint32(icon_type, out, pos)
        out2 == WriteUint32(size + 8, out1, pos + 4)
        out3 == CopyFile(infile, 0, out2, pos + 8)
    IN  IF fault \in {"fopen", "fseek", "header"}
        THEN [ret |-> FALSE, out |-> out, pos |-> pos]
        ELSE IF fault = "fwrite"
        THEN [ret |-> FALSE, out |-> out2, pos |-> pos + 8]
        ELSE [ret |-> TRUE, out |-> out3, pos |-> Len(out3)]

\* WriteIcnsFileMetadata without its fseek to offset 4.
WriteIcnsFileMetadataNoSeek(out, pos) == WriteUint32(pos, out, pos)

\* The output file after WriteIcnsFileMetadata, called at offset pos.
WriteIcnsFileMetadata(out, pos) ==
    LET size == pos
    IN  WriteUint32(size, out, 4)

\* ------------------------------------------------------------------ state

VARIABLES
    prog,           \* the program that runs: "createicns" or "readicns"
    arg,            \* argv[1]
    pc,             \* the statement the program has reached
    ret,            \* what Create...From... returned: "none", "true", "false"
    fs,             \* the file system: path |-> file or directory
    handles,        \* the FILE* and DIR* handles that are open
    stderr,         \* the messages printed, in order
    ioLog,          \* the file system calls made by the run, in order
    icns,           \* the stream of the .icns file: its path, offset, EOF flag
    dirpos,         \* how many entries readdir(iconset) has returned
    iconset_path,   \* readicns: the Path GetIconsetPath returned
    targets,        \* readicns: the files opened for writing, with their tags
    failed,         \* the library calls of the run that failed
    encArg          \* the iconset path createicns was run on, <<>> for none

vars == << prog, arg, pc, ret, fs, handles, stderr, ioLog, icns, dirpos,
           iconset_path, targets, failed, encArg >>

File(data) == [kind |-> "file", data |-> data, entries |-> <<>>]

Dir(entries) == [kind |-> "dir", data |-> <<>>, entries |-> entries]

Exists(path) == Resolve(path) \in DOMAIN fs

IsDir(path) == Exists(path) /\ fs[Resolve(path)].kind = "dir"

IsFile(path) == Exists(path) /\ fs[Resolve(path)].kind = "file"

\* The file system after path has been set to node.
Put(path, node) == (Resolve(path) :> node) @@ fs

\* The entries of a directory after fopen(name, "w"), writes of data and fclose.
PutEntry(entries, name, data) ==
    IF \E i \in 1..Len(entries) : entries[i].name = name
    THEN [i \in 1..Len(entries) |->
            IF entries[i].name = name THEN [name |-> name, data |-> data]
            ELSE entries[i]]
    ELSE Append(entries, [name |-> name, data |-> data])

NoStream == [path |-> <<>>, pos |-> 0, eof |-> FALSE]

\* ----------------------------------------------------------------- inputs

\* The contents of a source file of n bytes.
MakeData(seed, n) == [i \in 1..n |-> (seed + 7 * i) % 251]

\* The sizes of the icon files: none, one byte, around one buffer, two buffers.
FileSizes == {0, 1, kBufferSize - 1, kBufferSize, kBufferSize + 1,
              2 * kBufferSize}

\* "notes.txt" and ".DS_Store"
UnknownName == <<110, 111, 116, 101, 115, 46, 116, 120, 116>>
DotName == <<46, 68, 83, 95, 83, 116, 111, 114, 101>>

DirEntries ==
    { [name |-> kIconTypes[i].icon_filename, data |-> MakeData(i, n)] :
        i \in {1, Len(kIconTypes)}, n \in FileSizes }
    \cup { [name |-> UnknownName, data |-> MakeData(3, 2)],
           [name |-> DotName, data |-> MakeData(4, 3)] }

\* The listings of a directory: no name twice, any order.
RECURSIVE Listings(_)
Listings(n) ==
    IF n = 0 THEN { <<>> }
    ELSE LET shorter == Listings(n - 1)
         IN  shorter \cup
             { Append(l, e) : l \in {s \in shorter : Len(s) = n - 1},
                              e \in DirEntries } 

DistinctNames(l) ==
    \A i, j \in 1..Len(l) : l[i].name = l[j].name => i = j

Directories == { l \in Listings(MaxEntries) : DistinctNames(l) }

\* "d/x.iconset"
DefaultIconset == <<100, 47, 120, 46, 105, 99, 111, 110, 115, 101, 116>>

DefaultDirectory ==
    << [name |-> kIconTypes[1].icon_filename, data |-> MakeData(1, 1)] >>

\* "d/x.iconset", "x.iconset", "d/x.iconset/", "x.icons", "d/y.png"
IconsetPaths == {
    DefaultIconset,
    <<120, 46, 105, 99, 111, 110, 115, 101, 116>>,
    <<100, 47, 120, 46, 105, 99, 111, 110, 115, 101, 116, 47>>,
    <<120, 46, 105, 99, 111, 110, 115>>,
    <<100, 47, 121, 46, 112, 110, 103>> }

\* The tags of hand-made chunks: 'icp4', 'ic10', "abcd", "a\0bc", "a\0xy",
\* "\0\0\0\0", "a/bc".
ChunkTags == { 1768124468, 1768108336, 1633837924, 1627415139, 1627420793,
               0, 1630495331 }

\* The values of the length field of hand-made chunks.
ChunkSizes == {8, 10}

Chunk(tag, size) ==
    htonl(tag) \o htonl(size) \o
    (IF size > 8 THEN MakeData(size, size - 8) ELSE <<>>)

Chunks ==
    { Chunk(t, n) : t \in ChunkTags, n \in ChunkSizes }
    \cup { Chunk(1768124468, 7) }

\* The concatenations of at most n chunks, each with the length of its last
\* chunk.
RECURSIVE ChunkStreams(_)
ChunkStreams(n) ==
    IF n = 0 THEN { [bytes |-> <<>>, last |-> 0, count |-> 0] }
    ELSE LET shorter == ChunkStreams(n - 1)
         IN  shorter \cup
             { [bytes |-> s.bytes \o c, last |-> Len(c), count |-> n] :
                 s \in {t \in shorter : t.count = n - 1}, c \in Chunks }

\* 'icnt'
BadMagic == kMagicHeader + 1

\* "x.icns"
DefaultIcns == <<120, 46, 105, 99, 110, 115>>

\* "x.icns", "d/x.icns", "a.icns.b.icns", "x.icnsx", "x.png"
IcnsPaths == {
    DefaultIcns,
    <<100, 47, 120, 46, 105, 99, 110, 115>>,
    <<97, 46, 105, 99, 110, 115, 46, 98, 46, 105, 99, 110, 115>>,
    <<120, 46, 105, 99, 110, 115, 120>>,
    <<120, 46, 112, 110, 103>> }

DefaultContainer == htonl(kMagicHeader) \o htonl(18) \o Chunk(1768124468, 10)

\* The hand-made files readicns is run on: a header, chunks, and the end of
\* the file cut off inside the last chunk (inside the header for no chunks).
Containers ==
    { Take(htonl(magic) \o htonl(IF zero THEN 0 ELSE 8 + Len(s.bytes))
             \o s.bytes,
           8 + Len(s.bytes) - cut) :
        magic \in {kMagicHeader, BadMagic}, zero \in BOOLEAN,
        s \in ChunkStreams(MaxChunks), cut \in 0..10 }

SelectedContainers ==
    { c \in Containers :
        \/ Len(c) >= 8 /\ Take(c, 4) = htonl(kMagicHeader)
                       /\ SubSeq(c, 5, 8) # htonl(0)
        \/ Len(c) <= 8 + 10 }

Init ==
    /\ pc = "main"
    /\ ret = "none"
    /\ handles = {}
    /\ stderr = <<>>
    /\ ioLog = <<>>
    /\ icns = NoStream
    /\ dirpos = 0
    /\ iconset_path = <<>>
    /\ targets = <<>>
    /\ failed = {}
    /\ \/ /\ prog = "createicns"
          /\ \E path \in IconsetPaths, dir \in Directories, there \in BOOLEAN :
                /\ \/ path = DefaultIconset /\ there
                   \/ dir = DefaultDirectory
                /\ arg = path
                /\ fs = IF there THEN Resolve(path) :> Dir(dir) ELSE <<>>
          /\ encArg = arg
       \/ /\ prog = "readicns"
          /\ \E path \in IcnsPaths, c \in SelectedContainers, there \in BOOLEAN :
                /\ \/ path = DefaultIcns /\ there
                   \/ c \in {DefaultContainer, htonl(BadMagic)}
                /\ arg = path
                /\ fs = IF there THEN Resolve(path) :> File(c) ELSE <<>>
          /\ encArg = <<>>

\* ------------------------------------------------------- createicns: main

\* What every return from Create...From... and main does.
Return(value, messages, call) ==
    /\ failed' = IF call = "" THEN failed ELSE failed \cup {call}
    /\ ret' = value
    /\ stderr' = stderr \o messages
    /\ pc' = "exit"

\* main calls CreateIcnsFromIconset, which starts with opendir(iconset_path).
CreateIcnsFromIconset ==
    /\ prog = "createicns"
    /\ pc = "main"
    /\ ioLog' = Append(ioLog, "opendir")
    /\ IF IsDir(arg)
       THEN /\ handles' = handles \cup {"iconset"}
            /\ pc' = "OpenIcnsFileForIconset"
            /\ UNCHANGED << ret, stderr, failed >>
       ELSE /\ Return("false", <<MsgSystem>>, "opendir")
            /\ UNCHANGED handles
    /\ UNCHANGED << prog, arg, fs, icns, dirpos, iconset_path, targets, encArg >>

\* OpenIcnsFileForIconset; fault is the library call that fails.
OpenIcnsFileForIconset ==
    /\ prog = "createicns"
    /\ pc = "OpenIcnsFileForIconset"
    /\ LET path == IcnsPathForIconset(arg)
       IN  IF basename_r(arg) = NULL
           THEN /\ Return("false", <<MsgSystem>>, "basename_r")
                /\ UNCHANGED << fs, handles, ioLog, icns >>
           ELSE IF path = NULL
           THEN /\ Return("false", <<MsgNeedIconset>>, "")
                /\ UNCHANGED << fs, handles, ioLog, icns >>
           ELSE \E fault \in {"none", "fopen", "fwrite"} :
                /\ ioLog' = ioLog \o
                      (IF fault = "fopen" THEN <<"fopen">>
                       ELSE <<"fopen", "fwrite">>)
                /\ IF fault = "fopen" \/ IsDir(path)
                   THEN /\ Return("false", <<MsgSystem>>, "fopen")
                        /\ UNCHANGED << fs, handles, icns >>
                   ELSE IF fault = "fwrite"
                   THEN /\ Return("false", <<MsgSystem>>, "fwrite")
                        /\ fs' = Put(path, File(<<>>))
                        /\ UNCHANGED << handles, icns >>
                   ELSE /\ fs' = Put(path,
                              File(WriteUint32(0,
                                     WriteUint32(kMagicHeader, <<>>, 0), 4)))
                        /\ handles' = handles \cup {"icns"}
                        /\ icns' = [path |-> path, pos |-> 8, eof |-> FALSE]
                        /\ pc' = "readdir"
                        /\ UNCHANGED << ret, stderr, failed >>
    /\ UNCHANGED << prog, arg, dirpos, iconset_path, targets, encArg >>

\* The entry the next readdir(iconset) returns.
Entry == fs[Resolve(arg)].entries[dirpos + 1]

\* readdir returns an entry whose name starts with '.': continue.
SkipDotEntry ==
    /\ prog = "createicns"
    /\ pc = "readdir"
    /\ dirpos < Len(fs[Resolve(arg)].entries)
    /\ Entry.name[1] = Dot
    /\ dirpos' = dirpos + 1
    /\ ioLog' = Append(ioLog, "readdir")
    /\ UNCHANGED << prog, arg, pc, ret, fs, handles, stderr, icns,
                    iconset_path, targets, failed, encArg >>

\* readdir returns an entry FindIconType does not know: warn and continue.
SkipUnknownEntry ==
    /\ prog = "createicns"
    /\ pc = "readdir"
    /\ dirpos < Len(fs[Resolve(arg)].entries)
    /\ Entry.name[1] # Dot
    /\ FindIconType(Entry.name) = 0
    /\ dirpos' = dirpos + 1
    /\ ioLog' = Append(ioLog, "readdir")
    /\ stderr' = Append(stderr, MsgWarnSkip)
    /\ UNCHANGED << prog, arg, pc, ret, fs, handles, icns,
                    iconset_path, targets, failed, encArg >>

\* readdir returns an entry FindIconType knows: WriteIconToFile.
WriteIcon ==
    /\ prog = "createicns"
    /\ pc = "readdir"
    /\ dirpos < Len(fs[Resolve(arg)].entries)
    /\ Entry.name[1] # Dot
    /\ FindIconType(Entry.name) # 0
    /\ dirpos' = dirpos + 1
    /\ \E fault \in {"none", "fopen", "fseek", "header", "fwrite"} :
          LET w == WriteIconToFile(Entry.data, FindIconType(Entry.name),
                                   fs[icns.path].data, icns.pos, fault)
          IN  /\ ioLog' = ioLog \o <<"readdir", "fopen">> \o
                    (IF fault = "fopen" THEN <<>>
                     ELSE IF fault = "fseek" THEN <<"fseek", "fclose">>
                     ELSE <<"fseek", "fwrite", "fread", "fclose">>)
              /\ fs' = Put(icns.path, File(w.out))
              /\ icns' = [icns EXCEPT !.pos = w.pos]
              /\ IF w.ret
                 THEN UNCHANGED << pc, ret, stderr, handles, failed >>
                 ELSE /\ Return("false", <<MsgSystem>>,
                                IF fault = "header" THEN "fwrite" ELSE fault)
                      /\ handles' = handles \ {"icns"}
    /\ UNCHANGED << prog, arg, iconset_path, targets, encArg >>

\* readdir returns no more entries: WriteIcnsFileMetadata, fclose and return.
FinishIcns ==
    /\ prog = "createicns"
    /\ pc = "readdir"
    /\ dirpos = Len(fs[Resolve(arg)].entries)
    /\ \E ok \in BOOLEAN :
          /\ ioLog' = ioLog \o <<"readdir", "ftell", "fseek", "fwrite",
                                 "fclose">>
          /\ handles' = handles \ {"icns"}
          /\ IF ok
             THEN /\ fs' = Put(icns.path,
                       File(WriteIcnsFileMetadata(fs[icns.path].data,
                                                  icns.pos)))
                  /\ icns' = [icns EXCEPT !.pos = 8]
                  /\ Return("true", <<>>, "")
             ELSE /\ Return("false", <<>>, "fwrite")
                  /\ UNCHANGED << fs, icns >>
    /\ UNCHANGED << prog, arg, dirpos, iconset_path, targets, encArg >>

\* --------------------------------------------------------- readicns: main

\* main calls CreateIconsetFromIcns, which starts with
\* OpenIcnsFileForReading(icns_path).
CreateIconsetFromIcns ==
    /\ prog = "readicns"
    /\ pc = "main"
    /\ \E ok \in BOOLEAN :
          IF ~ok \/ ~IsFile(arg)
          THEN /\ ioLog' = Append(ioLog, "fopen")
               /\ Return("false", <<MsgSystem>>, "fopen")
               /\ UNCHANGED << handles, icns >>
          ELSE LET error == OpenIcnsFileForReading(fs[Resolve(arg)].data)
               IN  IF error # ""
                   THEN /\ ioLog' = ioLog \o <<"fopen", "fread", "fclose">>
                        /\ Return("false", <<error>>, "")
                        /\ UNCHANGED << handles, icns >>
                   ELSE /\ ioLog' = ioLog \o <<"fopen", "fread">>
                        /\ handles' = handles \cup {"icns"}
                        /\ icns' = [path |-> Resolve(arg), pos |-> 8,
                                    eof |-> FALSE]
                        /\ pc' = "GetIconsetPath"
                        /\ UNCHANGED << ret, stderr, failed >>
    /\ UNCHANGED << prog, arg, fs, dirpos, iconset_path, targets, encArg >>

\* iconset_path = GetIconsetPath(icns_path), and the return if it is empty.
IconsetPathFromIcns ==
    /\ prog = "readicns"
    /\ pc = "GetIconsetPath"
    /\ LET p == GetIconsetPath(arg)
       IN  /\ iconset_path' = p.path
           /\ IF IsEmpty(p.path)
              THEN /\ Return("false", <<p.error>>, "")
                   /\ handles' = handles \ {"icns"}
                   /\ ioLog' = Append(ioLog, "fclose")
              ELSE /\ pc' = "mkdir"
                   /\ UNCHANGED << ret, stderr, handles, ioLog, failed >>
    /\ UNCHANGED << prog, arg, fs, icns, dirpos, targets, encArg >>

\* mkdir(iconset_path.path, 0777)
MakeIconset ==
    /\ prog = "readicns"
    /\ pc = "mkdir"
    /\ ioLog' = Append(ioLog, "mkdir")
    /\ \E ok \in BOOLEAN :
          IF ~ok \/ Exists(iconset_path)
          THEN /\ Return("false", <<MsgSystem>>, "mkdir")
               /\ handles' = handles \ {"icns"}
               /\ UNCHANGED fs
          ELSE /\ fs' = Put(iconset_path, Dir(<<>>))
               /\ pc' = "feof"
               /\ UNCHANGED << ret, stderr, handles, failed >>
    /\ UNCHANGED << prog, arg, icns, dirpos, iconset_path, targets, encArg >>

\* while (!feof(icns)): one call of CopyIconToIconset.
CopyIcon ==
    /\ prog = "readicns"
    /\ pc = "feof"
    /\ ~icns.eof
    /\ \E fault \in {"none", "fopen", "fwrite"} :
          LET c == CopyIconToIconset(fs[icns.path].data, icns.pos,
                                     iconset_path, fault)
              dir == fs[Resolve(iconset_path)]
          IN  /\ icns' = [icns EXCEPT !.pos = c.pos, !.eof = c.eof]
              /\ ioLog' = ioLog \o <<"fread">> \o
                    (IF c.target = NULL THEN <<>>
                     ELSE <<"fopen", "fwrite", "fclose">>)
              /\ IF c.target = NULL
                 THEN UNCHANGED << fs, targets >>
                 ELSE /\ fs' = Put(iconset_path,
                           Dir(PutEntry(dir.entries, c.target, c.written)))
                      /\ targets' = Append(targets,
                           [header |-> c.header, name |-> c.target])
              /\ IF c.ret
                 THEN UNCHANGED << pc, ret, stderr, handles, failed >>
                 ELSE /\ Return("false", <<c.error>>, c.failed)
                      /\ handles' = handles \ {"icns"}
    /\ UNCHANGED << prog, arg, dirpos, iconset_path, encArg >>

\* feof(icns): fclose and return true.
FinishIconset ==
    /\ prog = "readicns"
    /\ pc = "feof"
    /\ icns.eof
    /\ handles' = handles \ {"icns"}
    /\ ioLog' = Append(ioLog, "fclose")
    /\ Return("true", <<>>, "")
    /\ UNCHANGED << prog, arg, fs, icns, dirpos, iconset_path, targets,
                    encArg >>

\* ------------------------------------------------------------ the shell

\* After createicns has succeeded, readicns is run on the file it wrote.
RunReadicns ==
    /\ prog = "createicns"
    /\ pc = "exit"
    /\ ret = "true"
    /\ prog' = "readicns"
    /\ arg' = icns.path
    /\ pc' = "main"
    /\ ret' = "none"
    /\ handles' = {}
    /\ stderr' = <<>>
    /\ ioLog' = <<>>
    /\ failed' = {}
    /\ icns' = NoStream
    /\ dirpos' = 0
    /\ UNCHANGED << fs, iconset_path, targets, encArg >>

Next ==
    \/ CreateIcnsFromIconset
    \/ OpenIcnsFileForIconset
    \/ SkipDotEntry
    \/ SkipUnknownEntry
    \/ WriteIcon
    \/ FinishIcns
    \/ CreateIconsetFromIcns
    \/ IconsetPathFromIcns
    \/ MakeIconset
    \/ CopyIcon
    \/ FinishIconset
    \/ RunReadicns

Spec == Init /\ [][Next]_vars

\* ------------------------------------------------- the specified format

\* The table of known file names and their 4-character tags.
TypeTable == {
    \* icon_16x16.png -> icp4
    [filename |-> <<105, 99, 111, 110, 95, 49, 54, 120, 49, 54, 46, 112, 110, 103>>,
     tag |-> <<105, 99, 112, 52>>],
    \* icon_16x16@2x.png -> ic11
    [filename |-> <<105, 99, 111, 110, 95, 49, 54, 120, 49, 54, 64, 50, 120, 46, 112, 110, 103>>,
     tag |-> <<105, 99, 49, 49>>],
    \* icon_32x32.png -> icp5
    [filename |-> <<105, 99, 111, 110, 95, 51, 50, 120, 51, 50, 46, 112, 110, 103>>,
     tag |-> <<105, 99, 112, 53>>],
    \* icon_32x32@2x.png -> ic12
    [filename |-> <<105, 99, 111, 110, 95, 51, 50, 120, 51, 50, 64, 50, 120, 46, 112, 110, 103>>,
     tag |-> <<105, 99, 49, 50>>],
    \* icon_64x64.png -> icp6
    [filename |-> <<105, 99, 111, 110, 95, 54, 52, 120, 54, 52, 46, 112, 110, 103>>,
     tag |-> <<105, 99, 112, 54>>],
    \* icon_128x128.png -> ic07
    [filename |-> <<105, 99, 111, 110, 95, 49, 50, 56, 120, 49, 50, 56, 46, 112, 110, 103>>,
     tag |-> <<105, 99, 48, 55>>],
    \* icon_128x128@2x.png -> ic13
    [filename |-> <<105, 99, 111, 110, 95, 49, 50, 56, 120, 49, 50, 56, 64, 50, 120, 46, 112, 110, 103>>,
     tag |-> <<105, 99, 49, 51>>],
    \* icon_256x256.png -> ic08
    [filename |-> <<105, 99, 111, 110, 95, 50, 53, 54, 120, 50, 53, 54, 46, 112, 110, 103>>,
     tag |-> <<105, 99, 48, 56>>],
    \* icon_256x256@2x.png -> ic14
    [filename |-> <<105, 99, 111, 110, 95, 50, 53, 54, 120, 50, 53, 54, 64, 50, 120, 46, 112, 110, 103>>,
     tag |-> <<105, 99, 49, 52>>],
    \* icon_512x512.png -> ic09
    [filename |-> <<105, 99, 111, 110, 95, 53, 49, 50, 120, 53, 49, 50, 46, 112, 110, 103>>,
     tag |-> <<105, 99, 48, 57>>],
    \* icon_512x512@2x.png -> ic10
    [filename |-> <<105, 99, 111, 110, 95, 53, 49, 50, 120, 53, 49, 50, 64, 50, 120, 46, 112, 110, 103>>,
     tag |-> <<105, 99, 49, 48>>] }

IsKnownName(name) == \E e \in TypeTable : e.filename = name

TagOfName(name) == (CHOOSE e \in TypeTable : e.filename = name).tag

IsKnownTag(tag) == \E e \in TypeTable : e.tag = tag

\* "icns"
Magic == <<105, 99, 110, 115>>

\* A 4-byte field read as a big-endian number.
BigEndian(b) == ((b[1] * 256 + b[2]) * 256 + b[3]) * 256 + b[4]

\* The chunks the bytes behind a container's header divide into; bytes that
\* are no chunk (too short, or a length below 8 or beyond the end) end the
\* sequence as a chunk without a tag.
RECURSIVE ChunksOf(_)
ChunksOf(b) ==
    IF b = <<>> THEN <<>>
    ELSE IF Len(b) < 8
    THEN << [tag |-> <<>>, size |-> 0, payload |-> b] >>
    ELSE LET size == BigEndian(SubSeq(b, 5, 8))
         IN  IF size < 8 \/ size > Len(b)
             THEN << [tag |-> <<>>, size |-> size, payload |-> b] >>
             ELSE << [tag |-> SubSeq(b, 1, 4), size |-> size,
                      payload |-> SubSeq(b, 9, size)] >>
                  \o ChunksOf(Drop(b, size))

EndsWith(s, suffix) ==
    Len(s) >= Len(suffix) /\ Drop(s, Len(s) - Len(suffix)) = suffix

\* The entries readdir lists whose names do not start with '.'.
NonDot(entries) == SelectSeq(entries, LAMBDA e : e.name[1] # Dot)

\* Those of them whose names are in the type table.
Known(entries) == SelectSeq(NonDot(entries), LAMBDA e : IsKnownName(e.name))

RECURSIVE TotalSize(_)
TotalSize(entries) ==
    IF entries = <<>> THEN 0
    ELSE 8 + Len(Head(entries).data) + TotalSize(Tail(entries))

\* The directory createicns was run on, and the file it wrote.
Source == fs[Resolve(encArg)].entries
Written == fs[icns.path].data

EncodeSucceeded == prog = "createicns" /\ pc = "exit" /\ ret = "true"

\* The file readicns was run on.
Input == fs[Resolve(arg)].data

AsSet(entries) == { entries[i] : i \in 1..Len(entries) }

\* ------------------------------------------------------------------ claims

\* C1: encoding a directory whose entries without a leading dot are all in the
\* type table and decoding the container written gives, when no library call
\* fails for a reason outside the data, success and a directory holding
\* exactly the same names with the same bytes.
RoundTrip ==
    (/\ prog = "readicns" /\ encArg # <<>> /\ pc = "exit"
     /\ failed \subseteq {"fread"}
     /\ Known(Source) = NonDot(Source))
    => /\ ret = "true"
       /\ IsDir(iconset_path)
       /\ AsSet(fs[Resolve(iconset_path)].entries) = AsSet(NonDot(Source))

\* C2: after a successful encode the total size field at offset 4 equals the
\* length of the file, which is 8 plus 8 + size for every known entry.
TotalSizeIsFileLength ==
    EncodeSucceeded
    => /\ Len(Written) >= 8
       /\ Take(Written, 4) = Magic
       /\ BigEndian(SubSeq(Written, 5, 8)) = Len(Written)
       /\ Len(Written) = 8 + TotalSize(Known(Source))

\* C2 witness: an encode that succeeded on a directory holding a known file of
\* more than one buffer next to an entry it skipped.
TotalSizeWitness ==
    /\ EncodeSucceeded
    /\ Len(Known(Source)) = 1
    /\ Len(Source) = 2
    /\ Len(Known(Source)[1].data) > kBufferSize

\* C3: after a successful encode the container is, behind its header, one
\* chunk per known entry in directory order: the entry's tag, 8 + the length
\* of the payload, and the file's bytes.
ChunkFraming ==
    EncodeSucceeded
    => ChunksOf(Drop(Written, 8)) =
         [i \in 1..Len(Known(Source)) |->
            [tag |-> TagOfName(Known(Source)[i].name),
             size |-> 8 + Len(Known(Source)[i].data),
             payload |-> Known(Source)[i].data]]

\* C3 witness: an encode that succeeded on two known files, one empty and one
\* of exactly two buffers.
ChunkFramingWitness ==
    /\ EncodeSucceeded
    /\ Len(Known(Source)) = 2
    /\ \E i, j \in 1..2 : /\ Len(Known(Source)[i].data) = 0
                          /\ Len(Known(Source)[j].data) = 2 * kBufferSize

\* C4: an entry with an unknown name never aborts the encode: when the
\* directory has the suffix and no library call fails, the encode succeeds with
\* one warning per unknown entry and the tags of the known entries, in order,
\* as the tags of its chunks.
UnknownEntriesSkipped ==
    (/\ prog = "createicns" /\ pc = "exit" /\ failed = {}
     /\ EndsWith(Basename(arg), kIconsetExtension)
     /\ Len(Basename(arg)) > Len(kIconsetExtension))
    => /\ ret = "true"
       /\ stderr = [i \in 1..(Len(NonDot(Source)) - Len(Known(Source))) |->
                      MsgWarnSkip]
       /\ [i \in 1..Len(ChunksOf(Drop(Written, 8))) |->
             ChunksOf(Drop(Written, 8))[i].tag]
          = [i \in 1..Len(Known(Source)) |-> TagOfName(Known(Source)[i].name)]

\* C4 witness: an encode that succeeded on a directory listing an unknown name
\* before a known one.
UnknownEntriesWitness ==
    /\ EncodeSucceeded
    /\ Len(Source) = 2
    /\ ~IsKnownName(Source[1].name) /\ Source[1].name[1] # Dot
    /\ IsKnownName(Source[2].name)

\* C5: every file readicns opens for a chunk whose tag is not in the type
\* table is named "icon_data_" followed by the 4 bytes of the tag.
UnknownTagNames ==
    \A i \in 1..Len(targets) :
        ~IsKnownTag(htonl(targets[i].header))
        => targets[i].name = kUnknownFormatFilename \o htonl(targets[i].header)

\* Whether the file readicns is run on has a header it has to reject.
BadHeader ==
    \/ Take(Input, 4) # Magic
    \/ Len(Input) < 8
    \/ SubSeq(Input, 5, 8) = <<0, 0, 0, 0>>

\* C6: on a file whose first 4 bytes are not "icns" or whose total size is 0
\* or missing, readicns never makes a directory or a file, and fails.
NoDirectoryOnBadHeader ==
    (prog = "readicns" /\ IsFile(arg) /\ BadHeader)
    => /\ DOMAIN fs = {Resolve(arg)}
       /\ targets = <<>>
       /\ \A i \in 1..Len(ioLog) : ioLog[i] # "mkdir"
       /\ pc = "exit" => ret = "false"

\* C6 witness: readicns has returned after reading a header with the right
\* magic and a total size of 0.
NoDirectoryWitness ==
    /\ prog = "readicns" /\ pc = "exit" /\ IsFile(arg)
    /\ failed = {}
    /\ Len(Input) > 8
    /\ Take(Input, 4) = Magic
    /\ SubSeq(Input, 5, 8) = <<0, 0, 0, 0>>

\* C7: readicns succeeds only if the bytes behind the header are complete
\* chunks, each with a length above 8.
SuccessOnlyAtChunkBoundary ==
    (prog = "readicns" /\ pc = "exit" /\ ret = "true")
    => \A i \in 1..Len(ChunksOf(Drop(Input, 8))) :
          /\ ChunksOf(Drop(Input, 8))[i].tag # <<>>
          /\ ChunksOf(Drop(Input, 8))[i].size > 8

\* C8: on a path whose basename lacks the suffix the program prints its naming
\* error and nothing else, having made no file system call.
NamingErrorWithoutIO ==
    (/\ pc = "exit"
     /\ ~EndsWith(Basename(arg),
                  IF prog = "createicns" THEN kIconsetExtension
                  ELSE kIcnsExtension))
    => /\ ret = "false"
       /\ stderr = << IF prog = "createicns" THEN MsgNeedIconset
                      ELSE MsgNoExtension >>
       /\ ioLog = <<>>

\* C9: when either program returns, none of the handles it opened is open.
HandlesReleased == pc = "exit" => handles = {}

\* C10: for a path whose basename ends with ".icns" the directory readicns
\* makes is named as the basename with that last ".icns" replaced by
\* ".iconset".
IconsetNameFromSuffix ==
    (/\ prog = "readicns" /\ pc \in {"mkdir", "feof", "exit"}
     /\ iconset_path # <<>>
     /\ EndsWith(Basename(arg), kIcnsExtension))
    => iconset_path =
         Take(Basename(arg), Len(Basename(arg)) - Len(kIcnsExtension))
         \o kIconsetExtension

====
